---- MODULE Spec2Model ----
(***************************************************************************)
(* Model of the FNA updater pipeline (src/.build/fna_updator.py):          *)
(* directory reconciliation, repository sync, workflow-run resolution,     *)
(* artifact listing and artifact download / extraction / merge.            *)
(*                                                                         *)
(* The filesystem is a pair of sets of paths (directories, regular files); *)
(* a path is a sequence of names.  The CI provider is a set of JSON        *)
(* bodies and transport status codes.                                      *)
(***************************************************************************)
EXTENDS Integers, Sequences, FiniteSets, TLC

VARIABLES
    pc,         \* position of the process in fna_updator.py
    dirs,       \* paths that exist as directories
    files,      \* paths that exist as regular files
    prior,      \* the shape of the filesystem before the invocation
    exitCode,   \* -1 while running, else the exit status of the process
    error,      \* which fatal condition ended the process ("" if none)
    log,        \* the operations performed so far, in order
    provider,   \* per candidate day, the body the run-listing endpoint holds
    resp,       \* per candidate day, the status received (0: not queried)
    runId,      \* the run id returned by _get_latest_run_for_workflow (0: none)
    listResp,   \* the response to the artifact-listing query
    artifacts,  \* the (name, url) pairs returned by _get_artifacts_for_workflow_run
    k,          \* 1-based number of the artifact being processed
    dlStatus,   \* statuses received for the downloads, in order
    todo,       \* directories os.walk listed and the loop has not moved yet
    clone,      \* local flag of _clone_or_update_repo
    update,     \* local flag of _clone_or_update_repo
    head,       \* commit checked out in the repository
    subHead,    \* commit checked out in the submodules
    calls,      \* history of _manage_directory calls (reconcile specification)
    syncs,      \* the repository as each completed _clone_or_update_repo left it
    clock,      \* the instant (hours, UTC) and the UTC offset of the machine
    dates       \* dates_to_check of _get_latest_run_for_workflow (<<>>: not computed)

vars == <<pc, dirs, files, prior, exitCode, error, log, provider, resp, runId,
          listResp, artifacts, k, dlStatus, todo, clone, update, head, subHead,
          calls, syncs, clock, dates>>

-----------------------------------------------------------------------------
(* Bounds *)

\* longest artifact listing the provider returns
MaxArtifacts == 2
\* number of successive _clone_or_update_repo calls in the sync specification
MaxSyncs == 2

\* number of successive _manage_directory calls in the reconcile specification
MaxCalls == 2

\* number of days the clock of the dates specification ranges over
ClockDays == 2

\* largest distance of local time from UTC, in hours
MaxUtcOffset == 12

-----------------------------------------------------------------------------
(* Paths *)

BaseDirectory == <<".fna">>
FnaRepoInstallPath == BaseDirectory \o <<"FNA">>
FnaLibsInstallPath == BaseDirectory \o <<"fnalibs">>
FnaLibsInstallCachePath == BaseDirectory \o <<"fnalibs_cache">>
VirtualEnvironmentPath == BaseDirectory \o <<".venv">>
GitMarker == FnaRepoInstallPath \o <<".git">>

IsPrefix(p, q) == Len(p) <= Len(q) /\ SubSeq(q, 1, Len(p)) = p

Basename(p) == p[Len(p)]

\* the paths directly inside directory p
Children(S, p) == {q \in S : Len(q) = Len(p) + 1 /\ IsPrefix(p, q)}

\* the paths strictly below directory p, relative to p
Subtree(S, p) == {SubSeq(q, Len(p) + 1, Len(q)) : q \in {r \in S : IsPrefix(p, r) /\ r # p}}

-----------------------------------------------------------------------------
(* Filesystem primitives *)

PathExists(d, f, p) == p \in d \/ p \in f

PathIsFile(f, p) == p \in f

RmTree(S, p) == {q \in S : ~IsPrefix(p, q)}

\* os.makedirs: the directory and every missing parent
MakeDirs(d, p) == d \cup {SubSeq(p, 1, i) : i \in 1..Len(p)}

\* a mutation: only regular files are removed, directories are left alone
RemoveFilesOnly(d, f, p) ==
    IF ~PathExists(d, f, p) THEN [dirs |-> d, files |-> f]
    ELSE IF PathIsFile(f, p) THEN [dirs |-> d, files |-> f \ {p}]
    ELSE [dirs |-> d, files |-> f]

RemoveFileSystemEntry(d, f, p) ==
    IF ~PathExists(d, f, p) THEN [dirs |-> d, files |-> f]
    ELSE IF PathIsFile(f, p) THEN [dirs |-> d, files |-> f \ {p}]
    ELSE [dirs |-> RmTree(d, p), files |-> RmTree(f, p)]

\* a mutation: the is-a-file check is made only when the directory is to be wiped
ManageDirectoryFileCheckUnderWipe(d, f, p, deleteIfExists, createIfNotExists) ==
    IF PathExists(d, f, p) /\ deleteIfExists /\ PathIsFile(f, p)
    THEN [ok |-> FALSE, dirs |-> d, files |-> f]
    ELSE LET r == IF PathExists(d, f, p) /\ deleteIfExists
                  THEN RemoveFileSystemEntry(d, f, p)
                  ELSE [dirs |-> d, files |-> f]
         IN IF createIfNotExists /\ ~PathExists(r.dirs, r.files, p)
            THEN [ok |-> TRUE, dirs |-> MakeDirs(r.dirs, p), files |-> r.files]
            ELSE [ok |-> TRUE, dirs |-> r.dirs, files |-> r.files]

\* a mutation: the directory is created only in the branch where the path did not exist
ManageDirectoryCreateInElse(d, f, p, deleteIfExists, createIfNotExists) ==
    IF PathExists(d, f, p)
    THEN IF PathIsFile(f, p)
         THEN [ok |-> FALSE, dirs |-> d, files |-> f]
         ELSE LET r == IF deleteIfExists
                       THEN RemoveFileSystemEntry(d, f, p)
                       ELSE [dirs |-> d, files |-> f]
              IN [ok |-> TRUE, dirs |-> r.dirs, files |-> r.files]
    ELSE IF createIfNotExists
         THEN [ok |-> TRUE, dirs |-> MakeDirs(d, p), files |-> f]
         ELSE [ok |-> TRUE, dirs |-> d, files |-> f]

\* _manage_directory: ok is FALSE when the code raises
ManageDirectory(d, f, p, deleteIfExists, createIfNotExists) ==
    IF PathExists(d, f, p) /\ PathIsFile(f, p)
    THEN [ok |-> FALSE, dirs |-> d, files |-> f]
    ELSE LET r == IF PathExists(d, f, p) /\ deleteIfExists
                  THEN RemoveFileSystemEntry(d, f, p)
                  ELSE [dirs |-> d, files |-> f]
         IN IF createIfNotExists /\ ~PathExists(r.dirs, r.files, p)
            THEN [ok |-> TRUE, dirs |-> MakeDirs(r.dirs, p), files |-> r.files]
            ELSE [ok |-> TRUE, dirs |-> r.dirs, files |-> r.files]

-----------------------------------------------------------------------------
(* The filesystem before the invocation *)

StaleLibs == {FnaLibsInstallPath \o <<"lib">>, FnaLibsInstallPath \o <<"old-platform">>}
StaleLibsFiles == {FnaLibsInstallPath \o <<"lib", "stale.dll">>}
StaleCache == {FnaLibsInstallCachePath \o <<"win-x64">>,
               FnaLibsInstallCachePath \o <<"win-x64", "lib">>}
StaleCacheFiles == {FnaLibsInstallCachePath \o <<"win-x64.zip">>}

PriorDirs(p) ==
    IF p.base # "dir" THEN {}
    ELSE {BaseDirectory}
         \cup (IF p.repo \in {"empty", "plain", "git"} THEN {FnaRepoInstallPath} ELSE {})
         \cup (IF p.repo = "git" THEN {GitMarker, VirtualEnvironmentPath} ELSE {})
         \cup (IF p.libs \in {"empty", "stale"} THEN {FnaLibsInstallPath} ELSE {})
         \cup (IF p.libs = "stale" THEN StaleLibs ELSE {})
         \cup (IF p.cache \in {"empty", "stale"} THEN {FnaLibsInstallCachePath} ELSE {})
         \cup (IF p.cache = "stale" THEN StaleCache ELSE {})

PriorFiles(p) ==
    IF p.base = "file" THEN {BaseDirectory}
    ELSE IF p.base = "absent" THEN {}
    ELSE (IF p.repo = "file" THEN {FnaRepoInstallPath} ELSE {})
         \cup (IF p.repo = "plain" THEN {FnaRepoInstallPath \o <<"leftover.txt">>} ELSE {})
         \cup (IF p.libs = "file" THEN {FnaLibsInstallPath} ELSE {})
         \cup (IF p.libs = "stale" THEN StaleLibsFiles ELSE {})
         \cup (IF p.cache = "file" THEN {FnaLibsInstallCachePath} ELSE {})
         \cup (IF p.cache = "stale" THEN StaleCacheFiles ELSE {})

Nothing == [base |-> "absent", repo |-> "absent", libs |-> "absent", cache |-> "absent"]

\* the prior states of the whole pipeline
PriorStates ==
    {Nothing, [Nothing EXCEPT !.base = "file"]}
    \cup {[base |-> "dir", repo |-> r, libs |-> l, cache |-> c] :
              r \in {"absent", "file", "empty", "plain", "git"},
              l \in {"absent", "file", "empty", "stale"},
              c \in {"absent", "file", "stale"}}

\* the prior states of the path given to _manage_directory on its own
ReconcilePriorStates ==
    {Nothing} \cup {[base |-> "dir", repo |-> "absent", libs |-> l, cache |-> "absent"] :
                       l \in {"absent", "file", "empty", "stale"}}

-----------------------------------------------------------------------------
(* The CI provider *)

\* len(dates_to_check): today and yesterday
NumDays == 2
MaxI == NumDays - 1

Days == 1..NumDays

StatusCodes == {200, 404}

\* the run the provider holds for a candidate day (1: today, 2: yesterday)
RunIdOf(day) == 1000 - day

EmptyObject == [x \in {} |-> 0]

RunBodyKinds == {"run", "emptyList", "noKey", "emptyObject"}

\* the JSON body of the run-listing endpoint
RunBody(kind, day) ==
    CASE kind = "run" -> [total_count |-> 1, workflow_runs |-> <<[id |-> RunIdOf(day)]>>]
      [] kind = "emptyList" -> [total_count |-> 0, workflow_runs |-> <<>>]
      [] kind = "noKey" -> [total_count |-> 0]
      [] OTHER -> EmptyObject

ArtifactNames == {"win-x64", "linux-x64", "osx"}

ArchiveDownloadUrl(name) == "https://api.github.com/artifacts/" \o name \o "/zip"

\* the directories inside the archive of an artifact
ArchiveDirs(name) ==
    CASE name = "win-x64" -> {<<"lib">>}
      [] name = "linux-x64" -> {<<"lib">>, <<"lib64">>, <<"lib64", "vulkan">>}
      [] OTHER -> {<<"osx">>}

\* the regular files inside the archive of an artifact
ArchiveFiles(name) ==
    CASE name = "win-x64" -> {<<"lib", "FNA3D.dll">>, <<"README.txt">>}
      [] name = "linux-x64" -> {<<"lib", "libFNA3D.so">>, <<"lib64", "vulkan", "icd.json">>}
      [] OTHER -> {<<"osx", "libFNA3D.dylib">>}

ArchiveOf(url) == CHOOSE n \in ArtifactNames : ArchiveDownloadUrl(n) = url

IsInjective(q) == \A i \in DOMAIN q : \A j \in DOMAIN q : q[i] = q[j] => i = j

\* artifact names are unique within one run's listing
Listings == {q \in UNION {[1..n -> ArtifactNames] : n \in 0..MaxArtifacts} : IsInjective(q)}

ListBodyKinds == {"list", "noKey", "emptyObject"}

\* the JSON body of the artifact-listing endpoint
ListBody(kind, listing) ==
    CASE kind = "list" ->
           [total_count |-> Len(listing),
            artifacts |-> [i \in DOMAIN listing |->
                             [name |-> listing[i],
                              archive_download_url |-> ArchiveDownloadUrl(listing[i])]]]
      [] kind = "noKey" -> [total_count |-> 0]
      [] OTHER -> EmptyObject

NoListResp == [status |-> 0, kind |-> "none", listing |-> <<>>]

-----------------------------------------------------------------------------
(* The version-control remote *)

\* the commit the remote branch is at, and an older one a previous run checked out
RemoteHead == "remote-head"
OldHead == "old-head"
NoHead == "none"

-----------------------------------------------------------------------------
(* The pipeline *)

\* timedelta(days=1), in the unit of the clock
HoursPerDay == 24

\* day 0 of the clock is 2023-12-28, so that the days reached span a year end
FirstDayOfMonth == 28
DaysInMonth == 31

\* a clock value the pipeline can start at
Epoch == [utc |-> 2 * HoursPerDay, offset |-> 0]

\* datetime.now().date(): the calendar day of the local time
LocalDate(utc, offset) == (utc + offset) \div HoursPerDay

\* two decimal digits
Pad(n) == IF n < 10 THEN "0" \o ToString(n) ELSE ToString(n)

\* date.isoformat() of the day with number n
IsoFormat(n) ==
    IF FirstDayOfMonth + n <= DaysInMonth
    THEN "2023-12-" \o Pad(FirstDayOfMonth + n)
    ELSE "2024-01-" \o Pad(FirstDayOfMonth + n - DaysInMonth)

\* dates_to_check: datetime.now() is read once for each entry
DatesToCheck(first, second, offset) ==
    <<IsoFormat(LocalDate(first, offset)), IsoFormat(LocalDate(second, offset) - 1)>>

\* an operation, the day or artifact it is about, and whether it succeeded
Event(op, arg, ok) == [op |-> op, arg |-> arg, ok |-> ok]

Init ==
    /\ pc = "init"
    /\ prior \in PriorStates
    /\ dirs = PriorDirs(prior)
    /\ files = PriorFiles(prior)
    /\ exitCode = -1
    /\ error = ""
    /\ log = <<>>
    /\ provider \in [Days -> RunBodyKinds]
    /\ resp = [d \in Days |-> 0]
    /\ runId = 0
    /\ listResp = NoListResp
    /\ artifacts = <<>>
    /\ k = 0
    /\ dlStatus = <<>>
    /\ todo = {}
    /\ clone = FALSE
    /\ update = FALSE
    /\ head = IF prior.repo = "git" THEN OldHead ELSE NoHead
    /\ subHead = IF prior.repo = "git" THEN OldHead ELSE NoHead
    /\ calls = <<>>
    /\ syncs = <<>>
    /\ clock = Epoch
    /\ dates = <<>>

\* a mutation: the process ends with status 0 after a fatal condition
FailExitZero(e) ==
    /\ pc' = "failed"
    /\ exitCode' = 0
    /\ error' = e

\* an uncaught exception or sys.exit(1)
Fail(e) ==
    /\ pc' = "failed"
    /\ exitCode' = 1
    /\ error' = e

\* a mutation: the base directory is reconciled in wipe-then-create mode
ConstructWipesBase ==
    /\ pc = "init"
    /\ LET r == ManageDirectory(dirs, files, BaseDirectory, TRUE, TRUE)
       IN IF ~r.ok
          THEN Fail("DirectoryConflict") /\ UNCHANGED <<dirs, files>>
          ELSE \E inVenv \in BOOLEAN, created \in BOOLEAN :
                 IF inVenv
                 THEN /\ dirs' = r.dirs /\ files' = r.files
                      /\ pc' = "sync" /\ UNCHANGED <<exitCode, error>>
                 ELSE LET v == ManageDirectory(r.dirs, r.files, VirtualEnvironmentPath,
                                               TRUE, FALSE)
                      IN IF ~v.ok
                         THEN /\ dirs' = v.dirs /\ files' = v.files
                              /\ Fail("DirectoryConflict")
                         ELSE IF created
                         THEN /\ dirs' = MakeDirs(v.dirs, VirtualEnvironmentPath)
                              /\ files' = v.files
                              /\ pc' = "sync" /\ UNCHANGED <<exitCode, error>>
                         ELSE /\ dirs' = v.dirs /\ files' = v.files
                              /\ Fail("EnvironmentFailure")
    /\ UNCHANGED <<prior, log, provider, resp, runId, listResp, artifacts, k, dlStatus,
                   todo, clone, update, head, subHead, calls, syncs, clock, dates>>

\* FnaUpdator.__init__
Construct ==
    /\ pc = "init"
    /\ LET r == ManageDirectory(dirs, files, BaseDirectory, FALSE, TRUE)
       IN IF ~r.ok
          THEN Fail("DirectoryConflict") /\ UNCHANGED <<dirs, files>>
          ELSE \E inVenv \in BOOLEAN, created \in BOOLEAN :
                 IF inVenv
                 THEN /\ dirs' = r.dirs /\ files' = r.files
                      /\ pc' = "sync" /\ UNCHANGED <<exitCode, error>>
                 ELSE LET v == ManageDirectory(r.dirs, r.files, VirtualEnvironmentPath,
                                               TRUE, FALSE)
                      IN IF ~v.ok
                         THEN /\ dirs' = v.dirs /\ files' = v.files
                              /\ Fail("DirectoryConflict")
                         ELSE IF created
                         THEN /\ dirs' = MakeDirs(v.dirs, VirtualEnvironmentPath)
                              /\ files' = v.files
                              /\ pc' = "sync" /\ UNCHANGED <<exitCode, error>>
                         ELSE /\ dirs' = v.dirs /\ files' = v.files
                              /\ Fail("EnvironmentFailure")
    /\ UNCHANGED <<prior, log, provider, resp, runId, listResp, artifacts, k, dlStatus,
                   todo, clone, update, head, subHead, calls, syncs, clock, dates>>

\* the content of the local repository: its tree and the commits checked out
WorkingTree(d, f, commit, subCommit) ==
    [head |-> commit, subHead |-> subCommit,
     tree |-> Subtree(d \cup f, FnaRepoInstallPath)]

\* a mutation: the version-control marker is not looked at
ClassifyAlwaysClone ==
    /\ pc = "sync"
    /\ IF PathExists(dirs, files, FnaRepoInstallPath) /\ PathIsFile(files, FnaRepoInstallPath)
       THEN Fail("DirectoryConflict") /\ UNCHANGED <<clone, update>>
       ELSE /\ pc' = "clone"
            /\ UNCHANGED <<exitCode, error>>
            /\ update' = FALSE /\ clone' = TRUE
    /\ UNCHANGED <<dirs, files, prior, log, provider, resp, runId, listResp, artifacts, k,
                   dlStatus, todo, head, subHead, calls, syncs, clock, dates>>

\* a mutation: the cache and install directories are reconciled before the sync
ClassifyAfterInstallReconcile ==
    /\ pc = "sync"
    /\ LET c == ManageDirectory(dirs, files, FnaLibsInstallCachePath, TRUE, TRUE)
           l == ManageDirectory(c.dirs, c.files, FnaLibsInstallPath, TRUE, TRUE)
       IN dirs' = l.dirs /\ files' = l.files
    /\ IF PathExists(dirs, files, FnaRepoInstallPath) /\ PathIsFile(files, FnaRepoInstallPath)
       THEN Fail("DirectoryConflict") /\ UNCHANGED <<clone, update>>
       ELSE /\ pc' = "clone"
            /\ UNCHANGED <<exitCode, error>>
            /\ IF /\ PathExists(dirs, files, FnaRepoInstallPath)
                  /\ PathExists(dirs, files, GitMarker)
               THEN update' = TRUE /\ clone' = FALSE
               ELSE update' = FALSE /\ clone' = TRUE
    /\ UNCHANGED <<prior, log, provider, resp, runId, listResp, artifacts, k,
                   dlStatus, todo, head, subHead, calls, syncs, clock, dates>>

\* _clone_or_update_repo, step 1
Classify ==
    /\ pc = "sync"
    /\ IF PathExists(dirs, files, FnaRepoInstallPath) /\ PathIsFile(files, FnaRepoInstallPath)
       THEN Fail("DirectoryConflict") /\ UNCHANGED <<clone, update>>
       ELSE /\ pc' = "clone"
            /\ UNCHANGED <<exitCode, error>>
            /\ IF /\ PathExists(dirs, files, FnaRepoInstallPath)
                  /\ PathExists(dirs, files, GitMarker)
               THEN update' = TRUE /\ clone' = FALSE
               ELSE update' = FALSE /\ clone' = TRUE
    /\ UNCHANGED <<dirs, files, prior, log, provider, resp, runId, listResp, artifacts, k,
                   dlStatus, todo, head, subHead, calls, syncs, clock, dates>>

\* git clone needs a missing or empty destination
CanCloneInto(d, f, p) == ~PathExists(d, f, p) \/ (Subtree(d, p) = {} /\ Subtree(f, p) = {})

\* a mutation: the update flag is set whether or not the clone succeeded
CloneThenAlwaysUpdate ==
    /\ pc = "clone"
    /\ pc' = "update"
    /\ IF clone
       THEN \E reachable \in BOOLEAN :
              /\ log' = Append(log, Event("clone", 0,
                                  reachable /\ CanCloneInto(dirs, files, FnaRepoInstallPath)))
              /\ update' = TRUE
              /\ IF reachable /\ CanCloneInto(dirs, files, FnaRepoInstallPath)
                 THEN /\ dirs' = MakeDirs(dirs, GitMarker)
                      /\ head' = RemoteHead
                      /\ subHead' = RemoteHead
                 ELSE UNCHANGED <<dirs, head, subHead>>
       ELSE UNCHANGED <<log, dirs, head, subHead, update>>
    /\ UNCHANGED <<files, prior, exitCode, error, provider, resp, runId, listResp, artifacts,
                   k, dlStatus, todo, clone, calls, syncs, clock, dates>>

\* _clone_or_update_repo, step 2
Clone ==
    /\ pc = "clone"
    /\ pc' = "update"
    /\ IF clone
       THEN \E reachable \in BOOLEAN :
              /\ log' = Append(log, Event("clone", 0,
                                  reachable /\ CanCloneInto(dirs, files, FnaRepoInstallPath)))
              /\ IF reachable /\ CanCloneInto(dirs, files, FnaRepoInstallPath)
                 THEN /\ dirs' = MakeDirs(dirs, GitMarker)
                      /\ head' = RemoteHead
                      /\ subHead' = RemoteHead
                      /\ UNCHANGED update
                 ELSE /\ update' = TRUE
                      /\ UNCHANGED <<dirs, head, subHead>>
       ELSE UNCHANGED <<log, dirs, head, subHead, update>>
    /\ UNCHANGED <<files, prior, exitCode, error, provider, resp, runId, listResp, artifacts,
                   k, dlStatus, todo, clone, calls, syncs, clock, dates>>

\* _clone_or_update_repo, step 3
Update ==
    /\ pc = "update"
    /\ IF update
       THEN IF ~PathExists(dirs, files, GitMarker)
            THEN /\ log' = Append(log, Event("pull", 0, FALSE))
                 /\ Fail("SyncFailure") /\ UNCHANGED head
            ELSE \E pulled \in BOOLEAN :
                   /\ log' = Append(log, Event("pull", 0, pulled))
                   /\ IF pulled
                      THEN /\ head' = RemoteHead
                           /\ pc' = "submodules" /\ UNCHANGED <<exitCode, error>>
                      ELSE Fail("SyncFailure") /\ UNCHANGED head
       ELSE /\ pc' = "submodules"
            /\ UNCHANGED <<log, head, exitCode, error>>
    /\ UNCHANGED <<dirs, files, prior, provider, resp, runId, listResp, artifacts, k,
                   dlStatus, todo, clone, update, subHead, calls, syncs, clock, dates>>

\* a mutation: the submodules are updated only on the update path
SubmodulesOnlyAfterUpdate ==
    /\ pc = "submodules"
    /\ IF update
       THEN \E updated \in BOOLEAN :
              IF updated
              THEN /\ subHead' = head
                   /\ syncs' = Append(syncs, WorkingTree(dirs, files, head, head))
                   /\ log' = log \o <<Event("submodules", 0, TRUE), Event("synced", 0, TRUE)>>
                   /\ pc' = "manage_cache" /\ UNCHANGED <<exitCode, error>>
              ELSE /\ log' = Append(log, Event("submodules", 0, FALSE))
                   /\ Fail("SyncFailure") /\ UNCHANGED <<subHead, syncs>>
       ELSE /\ log' = Append(log, Event("synced", 0, TRUE))
            /\ syncs' = Append(syncs, WorkingTree(dirs, files, head, subHead))
            /\ pc' = "manage_cache"
            /\ UNCHANGED <<subHead, exitCode, error>>
    /\ UNCHANGED <<dirs, files, prior, provider, resp, runId, listResp, artifacts, k,
                   dlStatus, todo, clone, update, head, calls, clock, dates>>

\* a mutation: the submodules are brought to the commit the repository had
\* before this call pulled
SubmodulesAtStaleHead ==
    /\ pc = "submodules"
    /\ \E updated \in BOOLEAN :
         IF updated
         THEN LET before == IF syncs # <<>> THEN syncs[Len(syncs)].head
                            ELSE IF prior.repo = "git" THEN OldHead ELSE NoHead
                  sub == IF update THEN before ELSE head
              IN /\ subHead' = sub
                 /\ syncs' = Append(syncs, WorkingTree(dirs, files, head, sub))
                 /\ log' = log \o <<Event("submodules", 0, TRUE), Event("synced", 0, TRUE)>>
                 /\ pc' = "manage_cache" /\ UNCHANGED <<exitCode, error>>
         ELSE /\ log' = Append(log, Event("submodules", 0, FALSE))
              /\ Fail("SyncFailure") /\ UNCHANGED <<subHead, syncs>>
    /\ UNCHANGED <<dirs, files, prior, provider, resp, runId, listResp, artifacts, k,
                   dlStatus, todo, clone, update, head, calls, clock, dates>>

\* _clone_or_update_repo, step 4
Submodules ==
    /\ pc = "submodules"
    /\ \E updated \in BOOLEAN :
         IF updated
         THEN /\ subHead' = head
              /\ syncs' = Append(syncs, WorkingTree(dirs, files, head, head))
              /\ log' = log \o <<Event("submodules", 0, TRUE), Event("synced", 0, TRUE)>>
              /\ pc' = "manage_cache" /\ UNCHANGED <<exitCode, error>>
         ELSE /\ log' = Append(log, Event("submodules", 0, FALSE))
              /\ Fail("SyncFailure") /\ UNCHANGED <<subHead, syncs>>
    /\ UNCHANGED <<dirs, files, prior, provider, resp, runId, listResp, artifacts, k,
                   dlStatus, todo, clone, update, head, calls, clock, dates>>

\* a mutation: the cache directory is created if missing but never wiped
ManageCacheNoWipe ==
    /\ pc = "manage_cache"
    /\ LET r == ManageDirectory(dirs, files, FnaLibsInstallCachePath, FALSE, TRUE)
       IN IF r.ok
          THEN /\ dirs' = r.dirs /\ files' = r.files
               /\ pc' = "manage_libs" /\ UNCHANGED <<exitCode, error>>
          ELSE Fail("DirectoryConflict") /\ UNCHANGED <<dirs, files>>
    /\ UNCHANGED <<prior, log, provider, resp, runId, listResp, artifacts, k, dlStatus,
                   todo, clone, update, head, subHead, calls, syncs, clock, dates>>

\* _install_fna_libs_manager: the cache directory is wiped and recreated
ManageCache ==
    /\ pc = "manage_cache"
    /\ LET r == ManageDirectory(dirs, files, FnaLibsInstallCachePath, TRUE, TRUE)
       IN IF r.ok
          THEN /\ dirs' = r.dirs /\ files' = r.files
               /\ pc' = "manage_libs" /\ UNCHANGED <<exitCode, error>>
          ELSE Fail("DirectoryConflict") /\ UNCHANGED <<dirs, files>>
    /\ UNCHANGED <<prior, log, provider, resp, runId, listResp, artifacts, k, dlStatus,
                   todo, clone, update, head, subHead, calls, syncs, clock, dates>>

\* a mutation: the install directory is created if missing but never wiped
ManageLibsNoWipe ==
    /\ pc = "manage_libs"
    /\ LET r == ManageDirectory(dirs, files, FnaLibsInstallPath, FALSE, TRUE)
       IN IF r.ok
          THEN /\ dirs' = r.dirs /\ files' = r.files
               /\ pc' = "query" /\ UNCHANGED <<exitCode, error>>
          ELSE Fail("DirectoryConflict") /\ UNCHANGED <<dirs, files>>
    /\ UNCHANGED <<prior, log, provider, resp, runId, listResp, artifacts, k, dlStatus,
                   todo, clone, update, head, subHead, calls, syncs, clock, dates>>

\* _install_fna_libs_manager: the install directory is wiped and recreated
ManageLibs ==
    /\ pc = "manage_libs"
    /\ LET r == ManageDirectory(dirs, files, FnaLibsInstallPath, TRUE, TRUE)
       IN IF r.ok
          THEN /\ dirs' = r.dirs /\ files' = r.files
               /\ pc' = "query" /\ UNCHANGED <<exitCode, error>>
          ELSE Fail("DirectoryConflict") /\ UNCHANGED <<dirs, files>>
    /\ UNCHANGED <<prior, log, provider, resp, runId, listResp, artifacts, k, dlStatus,
                   todo, clone, update, head, subHead, calls, syncs, clock, dates>>

\* the candidate day the loop of _get_latest_run_for_workflow is at
CurrentDay == Cardinality({d \in Days : resp[d] # 0}) + 1

\* a mutation: a run found before the last day does not end the loop
ResolveDayNoEarlyReturn(status, body, day) ==
    LET data == IF status = 200 THEN body ELSE EmptyObject
    IN IF DOMAIN data = {}
       THEN (IF day - 1 = MaxI THEN [kind |-> "exit", id |-> 0]
                               ELSE [kind |-> "continue", id |-> 0])
       ELSE IF "workflow_runs" \notin DOMAIN data
       THEN [kind |-> "raise", id |-> 0]
       ELSE IF Len(data.workflow_runs) = 0
       THEN (IF day - 1 = MaxI THEN [kind |-> "exit", id |-> 0]
                               ELSE [kind |-> "continue", id |-> 0])
       ELSE IF day - 1 = MaxI
       THEN [kind |-> "return", id |-> data.workflow_runs[1].id]
       ELSE [kind |-> "continue", id |-> 0]

\* one iteration of the loop of _get_latest_run_for_workflow
ResolveDay(status, body, day) ==
    LET data == IF status = 200 THEN body ELSE EmptyObject
    IN IF DOMAIN data = {}
       THEN (IF day - 1 = MaxI THEN [kind |-> "exit", id |-> 0]
                               ELSE [kind |-> "continue", id |-> 0])
       ELSE IF "workflow_runs" \notin DOMAIN data
       THEN [kind |-> "raise", id |-> 0]
       ELSE IF Len(data.workflow_runs) = 0
       THEN (IF day - 1 = MaxI THEN [kind |-> "exit", id |-> 0]
                               ELSE [kind |-> "continue", id |-> 0])
       ELSE [kind |-> "return", id |-> data.workflow_runs[1].id]

\* _get_latest_run_for_workflow: the query for one candidate day
QueryRuns ==
    /\ pc = "query"
    /\ \E status \in StatusCodes :
         LET day == CurrentDay
             r == ResolveDay(status, RunBody(provider[day], day), day)
         IN /\ resp' = [resp EXCEPT ![day] = status]
            /\ log' = Append(log, Event("query", day, status = 200))
            /\ CASE r.kind = "return" ->
                      /\ runId' = r.id
                      /\ pc' = "list" /\ UNCHANGED <<exitCode, error>>
                 [] r.kind = "continue" ->
                      UNCHANGED <<runId, pc, exitCode, error>>
                 [] r.kind = "exit" ->
                      Fail("RunNotFound") /\ UNCHANGED runId
                 [] OTHER ->
                      Fail("KeyError") /\ UNCHANGED runId
    /\ UNCHANGED <<dirs, files, prior, provider, listResp, artifacts, k, dlStatus, todo,
                   clone, update, head, subHead, calls, syncs, clock, dates>>

\* a mutation: the pairs are returned in reverse listing order
ParseArtifactsReversed(status, body) ==
    LET data == IF status = 200 THEN body ELSE EmptyObject
    IN IF DOMAIN data = {}
       THEN [kind |-> "exit", artifacts |-> <<>>]
       ELSE IF "artifacts" \notin DOMAIN data
       THEN [kind |-> "raise", artifacts |-> <<>>]
       ELSE IF Len(data.artifacts) = 0
       THEN [kind |-> "exit", artifacts |-> <<>>]
       ELSE [kind |-> "return",
             artifacts |-> [i \in DOMAIN data.artifacts |->
                              <<data.artifacts[Len(data.artifacts) + 1 - i].name,
                                data.artifacts[Len(data.artifacts) + 1 - i].archive_download_url>>]]

\* the body of _get_artifacts_for_workflow_run after the request
ParseArtifacts(status, body) ==
    LET data == IF status = 200 THEN body ELSE EmptyObject
    IN IF DOMAIN data = {}
       THEN [kind |-> "exit", artifacts |-> <<>>]
       ELSE IF "artifacts" \notin DOMAIN data
       THEN [kind |-> "raise", artifacts |-> <<>>]
       ELSE IF Len(data.artifacts) = 0
       THEN [kind |-> "exit", artifacts |-> <<>>]
       ELSE [kind |-> "return",
             artifacts |-> [i \in DOMAIN data.artifacts |->
                              <<data.artifacts[i].name, data.artifacts[i].archive_download_url>>]]

\* _get_artifacts_for_workflow_run
ListArtifacts ==
    /\ pc = "list"
    /\ \E status \in StatusCodes, kind \in ListBodyKinds, listing \in Listings :
         /\ (kind # "list" => listing = <<>>)
         /\ LET r == ParseArtifacts(status, ListBody(kind, listing))
            IN /\ listResp' = [status |-> status, kind |-> kind, listing |-> listing]
               /\ log' = Append(log, Event("list", 0, status = 200))
               /\ CASE r.kind = "return" ->
                         /\ artifacts' = r.artifacts
                         /\ k' = 1
                         /\ pc' = "download" /\ UNCHANGED <<exitCode, error>>
                    [] r.kind = "exit" ->
                         Fail("ListingFailure") /\ UNCHANGED <<artifacts, k>>
                    [] OTHER ->
                         Fail("KeyError") /\ UNCHANGED <<artifacts, k>>
    /\ UNCHANGED <<dirs, files, prior, provider, resp, runId, dlStatus, todo, clone, update,
                   head, subHead, calls, syncs, clock, dates>>

ZipPath(name) == FnaLibsInstallCachePath \o <<name \o ".zip">>

ExtractPath(name) == FnaLibsInstallCachePath \o <<name>>

\* a mutation: True is returned whatever the status
DownloadArtifactAlwaysTrue(f, name, status) ==
    IF status = 200
    THEN [ok |-> TRUE, files |-> f \cup {ZipPath(name)}]
    ELSE [ok |-> TRUE, files |-> f]

\* a mutation: a failed download removes what the cache directory holds
DownloadArtifactCleansUp(f, name, status) ==
    IF status = 200
    THEN [ok |-> TRUE, files |-> f \cup {ZipPath(name)}]
    ELSE [ok |-> FALSE, files |-> {q \in f : ~IsPrefix(FnaLibsInstallCachePath, q)}]

\* _download_artifact
DownloadArtifact(f, name, status) ==
    IF status = 200
    THEN [ok |-> TRUE, files |-> f \cup {ZipPath(name)}]
    ELSE [ok |-> FALSE, files |-> f]

ExtractOutcomes == {"ok", "badzip", "partial"}

\* _extract_artifact: archive is the content of the downloaded zip file
ExtractArtifact(d, f, name, archive, outcome) ==
    IF ZipPath(name) \notin f \/ outcome = "badzip"
    THEN [ok |-> FALSE, dirs |-> d, files |-> f]
    ELSE IF outcome = "partial"
    THEN [ok |-> FALSE,
          dirs |-> MakeDirs(d, ExtractPath(name))
                   \cup {ExtractPath(name) \o q : q \in ArchiveDirs(archive)},
          files |-> f]
    ELSE [ok |-> TRUE,
          dirs |-> MakeDirs(d, ExtractPath(name))
                   \cup {ExtractPath(name) \o q : q \in ArchiveDirs(archive)},
          files |-> f \cup {ExtractPath(name) \o q : q \in ArchiveFiles(archive)}]

\* os.rename of a tree
Rename(S, src, dst) ==
    {IF IsPrefix(src, q) THEN dst \o SubSeq(q, Len(src) + 1, Len(q)) ELSE q : q \in S}

\* shutil.move(src, dst): ok is FALSE when it raises shutil.Error
ShutilMove(d, f, src, dst) ==
    IF dst \in d
    THEN LET realDst == dst \o <<Basename(src)>>
         IN IF PathExists(d, f, realDst)
            THEN [ok |-> FALSE, dirs |-> d, files |-> f]
            ELSE [ok |-> TRUE, dirs |-> Rename(d, src, realDst),
                  files |-> Rename(f, src, realDst)]
    ELSE [ok |-> TRUE, dirs |-> Rename(d, src, dst), files |-> Rename(f, src, dst)]

\* _download_and_extract_artifact: the download
Download ==
    /\ pc = "download"
    /\ \E status \in StatusCodes :
         LET r == DownloadArtifact(files, artifacts[k][1], status)
         IN /\ dlStatus' = Append(dlStatus, status)
            /\ log' = Append(log, Event("download", k, status = 200))
            /\ files' = r.files
            /\ IF r.ok
               THEN pc' = "extract" /\ UNCHANGED <<exitCode, error>>
               ELSE Fail("DownloadFailure")
    /\ UNCHANGED <<dirs, prior, provider, resp, runId, listResp, artifacts, k, todo, clone,
                   update, head, subHead, calls, syncs, clock, dates>>

\* _download_and_extract_artifact: the extraction
Extract ==
    /\ pc = "extract"
    /\ \E outcome \in ExtractOutcomes :
         LET r == ExtractArtifact(dirs, files, artifacts[k][1], ArchiveOf(artifacts[k][2]),
                                  outcome)
         IN /\ log' = Append(log, Event("extract", k, r.ok))
            /\ dirs' = r.dirs
            /\ files' = r.files
            /\ IF r.ok
               THEN pc' = "walk" /\ UNCHANGED <<exitCode, error>>
               ELSE Fail("ExtractionFailure")
    /\ UNCHANGED <<prior, provider, resp, runId, listResp, artifacts, k, dlStatus, todo,
                   clone, update, head, subHead, calls, syncs, clock, dates>>

\* a mutation: the directories of every depth are listed for the move
WalkAllDepths ==
    /\ pc = "walk"
    /\ todo' = {q \in dirs : IsPrefix(ExtractPath(artifacts[k][1]), q)
                               /\ q # ExtractPath(artifacts[k][1])}
    /\ pc' = "move"
    /\ UNCHANGED <<dirs, files, prior, exitCode, error, log, provider, resp, runId, listResp,
                   artifacts, k, dlStatus, clone, update, head, subHead, calls, syncs, clock, dates>>

\* a mutation: the regular files at the top of the extracted tree are moved too
WalkWithFiles ==
    /\ pc = "walk"
    /\ todo' = Children(dirs \cup files, ExtractPath(artifacts[k][1]))
    /\ pc' = "move"
    /\ UNCHANGED <<dirs, files, prior, exitCode, error, log, provider, resp, runId, listResp,
                   artifacts, k, dlStatus, clone, update, head, subHead, calls, syncs, clock, dates>>

\* _download_and_extract_artifact: os.walk lists the top of the extracted tree
Walk ==
    /\ pc = "walk"
    /\ todo' = Children(dirs, ExtractPath(artifacts[k][1]))
    /\ pc' = "move"
    /\ UNCHANGED <<dirs, files, prior, exitCode, error, log, provider, resp, runId, listResp,
                   artifacts, k, dlStatus, clone, update, head, subHead, calls, syncs, clock, dates>>

\* _download_and_extract_artifact: one shutil.move of the loop, in scandir order
Move ==
    /\ pc = "move"
    /\ \E src \in todo :
         LET r == ShutilMove(dirs, files, src, FnaLibsInstallPath)
         IN /\ log' = Append(log, Event("move", k, r.ok))
            /\ dirs' = r.dirs
            /\ files' = r.files
            /\ todo' = todo \ {src}
            /\ IF r.ok
               THEN UNCHANGED <<pc, exitCode, error>>
               ELSE Fail("MoveError")
    /\ UNCHANGED <<prior, provider, resp, runId, listResp, artifacts, k, dlStatus, clone,
                   update, head, subHead, calls, syncs, clock, dates>>

\* a mutation: the next artifact is started without waiting for the moves
FinishArtifactEarly ==
    /\ pc = "move"
    /\ log' = Append(log, Event("merged", k, TRUE))
    /\ IF k < Len(artifacts)
       THEN k' = k + 1 /\ pc' = "download"
       ELSE k' = k /\ pc' = "cleanup"
    /\ UNCHANGED <<dirs, files, prior, exitCode, error, provider, resp, runId, listResp,
                   artifacts, dlStatus, todo, clone, update, head, subHead, calls, syncs, clock, dates>>

\* the walk of one artifact is over: the loop of _install_fna_libs_manager goes on
FinishArtifact ==
    /\ pc = "move"
    /\ todo = {}
    /\ log' = Append(log, Event("merged", k, TRUE))
    /\ IF k < Len(artifacts)
       THEN k' = k + 1 /\ pc' = "download"
       ELSE k' = k /\ pc' = "cleanup"
    /\ UNCHANGED <<dirs, files, prior, exitCode, error, provider, resp, runId, listResp,
                   artifacts, dlStatus, todo, clone, update, head, subHead, calls, syncs, clock, dates>>

\* _install_fna_libs_manager removes the cache; execute exits with status 0
Cleanup ==
    /\ pc = "cleanup"
    /\ LET r == RemoveFileSystemEntry(dirs, files, FnaLibsInstallCachePath)
       IN dirs' = r.dirs /\ files' = r.files
    /\ log' = Append(log, Event("rmcache", 0, TRUE))
    /\ pc' = "done"
    /\ exitCode' = 0
    /\ UNCHANGED <<prior, error, provider, resp, runId, listResp, artifacts, k, dlStatus,
                   todo, clone, update, head, subHead, calls, syncs, clock, dates>>

Next ==
    \/ Construct
    \/ Classify
    \/ Clone
    \/ Update
    \/ Submodules
    \/ ManageCache
    \/ ManageLibs
    \/ QueryRuns
    \/ ListArtifacts
    \/ Download
    \/ Extract
    \/ Walk
    \/ Move
    \/ FinishArtifact
    \/ Cleanup

Spec == Init /\ [][Next]_vars

-----------------------------------------------------------------------------
(* Properties of the pipeline *)

Positions(op) == {i \in DOMAIN log : log[i].op = op}

PositionsOf(op, arg) == {i \in DOMAIN log : log[i].op = op /\ log[i].arg = arg}

\* the names of the directories at the top of an artifact's extracted tree
TopLevelDirs(archive) == {q[1] : q \in {r \in ArchiveDirs(archive) : Len(r) = 1}}

\* what the top-level directories of the first n listed artifacts hold
MergedDirs(n) == UNION {ArchiveDirs(listResp.listing[i]) : i \in 1..n}
MergedFiles(n) ==
    UNION {{q \in ArchiveFiles(listResp.listing[i]) : Len(q) > 1} : i \in 1..n}

InstallRootChildren == {Basename(q) : q \in Children(dirs \cup files, FnaLibsInstallPath)}

ResolutionOver == resp[1] # 0 /\ pc # "query"

\* C1: with every run-listing query answered successfully, the run of today
\* is returned when the provider has one, else the run of yesterday when the
\* provider has one, else the process exits non-zero before any listing.
C1_LatestCompletedRun ==
    (ResolutionOver /\ \A d \in Days : resp[d] \in {0, 200}) =>
        IF provider[1] = "run" THEN runId = RunIdOf(1)
        ELSE IF provider[2] = "run" THEN runId = RunIdOf(2)
        ELSE /\ pc = "failed" /\ exitCode = 1
             /\ Positions("list") = {} /\ Positions("download") = {}

\* C2: a run-listing query answered with a non-success status ends the
\* process non-zero: no later day is queried and no artifact is listed.
C2_FailedQueryIsFatal ==
    \A d \in Days :
        resp[d] \notin {0, 200} =>
            /\ pc = "failed" /\ exitCode = 1
            /\ \A e \in Days : e > d => resp[e] = 0
            /\ Positions("list") = {}

SharedTopLevelName ==
    /\ Len(artifacts) = 2
    /\ TopLevelDirs(ArchiveOf(artifacts[1][2])) \cap TopLevelDirs(ArchiveOf(artifacts[2][2])) # {}

\* C3: two artifacts whose trees have a top-level directory of the same name
\* are both merged: no move aborts the run, and once the second artifact is
\* merged the install root holds the content of both.
C3_SameNameMerged ==
    SharedTopLevelName =>
        /\ error # "MoveError"
        /\ (PositionsOf("merged", 2) # {} =>
               /\ MergedDirs(2) \subseteq Subtree(dirs, FnaLibsInstallPath)
               /\ MergedFiles(2) \subseteq Subtree(files, FnaLibsInstallPath))

\* C4: after exit 0 the children of the install root are exactly the
\* top-level directories of the listed artifacts' trees, with their content
\* and nothing of a previous run, and the cache root does not exist.
C4_InstallRootAfterSuccess ==
    exitCode = 0 =>
        /\ InstallRootChildren =
               UNION {TopLevelDirs(listResp.listing[i]) : i \in DOMAIN listResp.listing}
        /\ Children(files, FnaLibsInstallPath) = {}
        /\ Subtree(dirs, FnaLibsInstallPath) = MergedDirs(Len(listResp.listing))
        /\ Subtree(files, FnaLibsInstallPath) = MergedFiles(Len(listResp.listing))
        /\ ~PathExists(dirs, files, FnaLibsInstallCachePath)
        /\ \A q \in dirs \cup files : ~IsPrefix(FnaLibsInstallCachePath, q)

\* a successful run of two artifacts over content left by a previous run
C4_Witness ==
    /\ exitCode = 0
    /\ pc = "done"
    /\ Len(listResp.listing) = 2
    /\ prior.libs = "stale"
    /\ prior.cache = "stale"
    /\ Cardinality(InstallRootChildren) = 3

\* C5: a failed download or extraction of artifact a is the last thing the
\* process does: it exits non-zero, artifact a was downloaded once and none of
\* it was moved, no later artifact was touched, and the install root holds
\* what artifacts 1..a-1 merged.
C5_FailedArtifactIsFatal ==
    \A i \in DOMAIN log :
        (log[i].op \in {"download", "extract"} /\ ~log[i].ok) =>
            /\ i = Len(log)
            /\ pc = "failed" /\ exitCode = 1
            /\ Cardinality(PositionsOf("download", log[i].arg)) = 1
            /\ PositionsOf("move", log[i].arg) = {}
            /\ \A j \in DOMAIN log : log[j].op \in {"download", "extract", "move", "merged"}
                                        => log[j].arg <= log[i].arg
            /\ Subtree(dirs, FnaLibsInstallPath) = MergedDirs(log[i].arg - 1)
            /\ Subtree(files, FnaLibsInstallPath) = MergedFiles(log[i].arg - 1)

\* the second artifact failed to extract after the first was merged
C5_Witness ==
    /\ pc = "failed"
    /\ error = "ExtractionFailure"
    /\ k = 2
    /\ dlStatus = <<200, 200>>
    /\ PositionsOf("merged", 1) # {}
    /\ Subtree(dirs, FnaLibsInstallPath) # {}

Stage(op) ==
    CASE op \in {"clone", "pull", "submodules", "synced"} -> 1
      [] op = "query" -> 2
      [] op = "list" -> 3
      [] op \in {"download", "extract", "move", "merged"} -> 4
      [] OTHER -> 5

\* the artifacts whose merge is over before position i
MergedBefore(i) == {log[j].arg : j \in {m \in Positions("merged") : m < i}}

\* C6: the stages never overlap or go back: sync is over before the first
\* run-listing query, a run is resolved before the listing, the listing is
\* over before the first download, and artifact a+1 is started only after
\* every top-level directory of artifact a has been moved.
C6_StagesInOrder ==
    /\ \A i \in DOMAIN log : \A j \in DOMAIN log :
           i < j => Stage(log[i].op) <= Stage(log[j].op)
    /\ \A i \in Positions("query") : \E j \in Positions("synced") : j < i
    /\ \A i \in Positions("list") :
           /\ runId # 0
           /\ \E j \in Positions("query") : j < i /\ log[j].ok
    /\ \A i \in Positions("download") :
           /\ \E j \in Positions("list") : j < i /\ log[j].ok
           /\ MergedBefore(i) = 1..(log[i].arg - 1)
           /\ artifacts[log[i].arg] = <<listResp.listing[log[i].arg],
                                        ArchiveDownloadUrl(listResp.listing[log[i].arg])>>
    /\ \A i \in Positions("merged") :
           Cardinality({j \in PositionsOf("move", log[i].arg) : j < i /\ log[j].ok})
               = Cardinality(TopLevelDirs(listResp.listing[log[i].arg]))
    /\ \A i \in DOMAIN log :
           log[i].op \in {"extract", "move", "merged"} =>
               \E j \in PositionsOf("download", log[i].arg) :
                   /\ j < i
                   /\ \A m \in Positions("download") : m < i => m <= j

\* the second artifact was downloaded after the first was merged
C6_Witness ==
    /\ pc = "done"
    /\ Len(artifacts) = 2
    /\ PositionsOf("download", 2) # {}
    /\ PositionsOf("move", 1) # {}
    /\ Positions("clone") # {}
    /\ Cardinality(Positions("query")) = 2

\* C10: a failed or empty artifact listing ends the process non-zero before
\* any download; otherwise one (name, url) pair per listed artifact is
\* returned, in the provider's order.
C10_ListArtifacts ==
    listResp.status # 0 =>
        IF listResp.status # 200 \/ Len(listResp.listing) = 0
        THEN /\ pc = "failed" /\ exitCode = 1
             /\ Positions("download") = {}
             /\ artifacts = <<>>
        ELSE /\ Len(artifacts) = Len(listResp.listing)
             /\ \A i \in DOMAIN artifacts :
                    artifacts[i] = <<listResp.listing[i],
                                     ArchiveDownloadUrl(listResp.listing[i])>>

\* a listing of two artifacts was returned and the first download started
C10_Witness ==
    /\ listResp.status = 200
    /\ Len(listResp.listing) = 2
    /\ artifacts[1][1] = "linux-x64"
    /\ artifacts[2][1] = "osx"
    /\ Positions("download") # {}

-----------------------------------------------------------------------------
(* Exit status and repository sync *)

\* every stage of the pipeline was carried out with success
AllStagesSucceeded ==
    /\ Positions("synced") # {}
    /\ runId # 0
    /\ listResp.status = 200
    /\ Len(listResp.listing) > 0
    /\ \A a \in DOMAIN listResp.listing :
           /\ \E i \in PositionsOf("download", a) : log[i].ok
           /\ \E i \in PositionsOf("extract", a) : log[i].ok
           /\ PositionsOf("merged", a) # {}
           /\ \A i \in PositionsOf("move", a) : log[i].ok
    /\ Positions("rmcache") # {}
    /\ ~PathExists(dirs, files, FnaLibsInstallCachePath)

\* one of the fatal conditions has been met
FatalConditionMet ==
    \/ prior.base = "file"
    \/ (prior.base = "dir" /\ prior.repo = "file" /\ pc \notin {"init", "sync"})
    \/ (prior.base = "dir" /\ prior.cache = "file" /\ pc \notin {"init", "sync", "clone",
                                  "update", "submodules", "manage_cache"} )
    \/ (prior.base = "dir" /\ prior.libs = "file" /\ Positions("query") # {})
    \/ \E i \in DOMAIN log :
           log[i].op \in {"pull", "submodules", "list", "download", "extract"} /\ ~log[i].ok
    \/ (resp[NumDays] # 0 /\ runId = 0)
    \/ (listResp.status = 200 /\ Len(listResp.listing) = 0)

\* C11: the process exits 0 exactly when every stage succeeded; a directory
\* conflict, a failed update, a failed submodule update, no run in the
\* window, a failed or empty listing, a failed download and a failed
\* extraction all end it non-zero, and exit 0 is not reached after them.
C11_ExitStatus ==
    /\ (exitCode = 0 <=> (pc = "done" /\ AllStagesSucceeded))
    /\ (pc = "failed" <=> exitCode = 1)
    /\ (pc \notin {"done", "failed"} <=> exitCode = -1)
    /\ (FatalConditionMet => exitCode # 0)
    /\ ((prior.base = "file" \/ (prior.base = "dir" /\ "file" \in {prior.repo, prior.cache, prior.libs}))
            => exitCode # 0)

\* a run of two artifacts that ended with status 0
C11_Witness ==
    /\ pc = "done"
    /\ exitCode = 0
    /\ AllStagesSucceeded
    /\ Len(listResp.listing) = 2

\* what the repository path is when _clone_or_update_repo is entered
RepoAtEntry == IF prior.base = "dir" THEN prior.repo ELSE "absent"

GitOperations == {i \in DOMAIN log : log[i].op \in {"clone", "pull", "submodules"}}

Classified == pc \notin {"init", "sync"} /\ ~(pc = "failed" /\ error = "EnvironmentFailure")
                 /\ prior.base # "file"

\* C12: the repository path is classified before any git operation: a
\* regular file is fatal with no git operation at all, a directory with
\* the marker is updated and never cloned, a missing path is cloned, and a
\* directory without the marker is cloned and, when that fails, updated.
C12_SyncClassification ==
    /\ (~Classified => GitOperations = {})
    /\ (pc = "clone" => (clone <=> ~update))
    /\ (Classified =>
          CASE RepoAtEntry = "file" ->
                 pc = "failed" /\ error = "DirectoryConflict" /\ GitOperations = {}
            [] RepoAtEntry = "git" ->
                 /\ Positions("clone") = {}
                 /\ (pc # "clone" => update)
                 /\ (GitOperations # {} => log[1].op = "pull")
            [] RepoAtEntry = "absent" ->
                 /\ (pc # "clone" => Positions("clone") = {1})
            [] OTHER ->
                 /\ (pc # "clone" => Positions("clone") = {1})
                 /\ (pc \notin {"clone", "update"} /\ ~log[1].ok => log[2].op = "pull"))

\* a directory without the marker was cloned into without success, then updated
C12_Witness ==
    /\ RepoAtEntry = "plain"
    /\ Len(log) >= 2
    /\ log[1].op = "clone" /\ ~log[1].ok
    /\ log[2].op = "pull"

\* C13: a failed clone does not end the run: the update is what comes
\* next; after a clone that succeeded no update is made.
C13_CloneFailureFallsBack ==
    \A i \in Positions("clone") :
        IF log[i].ok
        THEN Positions("pull") = {}
        ELSE /\ (i = Len(log) => pc = "update" /\ update /\ exitCode = -1)
             /\ (i < Len(log) => log[i + 1].op = "pull")

\* the clone of a missing path failed and the update was tried
C13_Witness ==
    /\ RepoAtEntry = "absent"
    /\ Len(log) >= 2
    /\ log[1].op = "clone" /\ ~log[1].ok
    /\ log[2].op = "pull" /\ ~log[2].ok
    /\ pc = "failed"

\* C14: whenever sync returns, the submodules were updated after the clone
\* or the update and hold the commits the checked-out tree pins.
C14_SubmodulesAlwaysUpdated ==
    \A i \in Positions("synced") :
        /\ i > 1
        /\ log[i - 1].op = "submodules" /\ log[i - 1].ok
        /\ \E j \in 1..(i - 2) : log[j].op \in {"clone", "pull"} /\ log[j].ok
        /\ (i = Len(log) => subHead = head)

\* sync returned after a clone that succeeded
C14_Witness ==
    /\ pc = "manage_cache"
    /\ Len(log) = 3
    /\ log[1].op = "clone" /\ log[1].ok
    /\ log[2].op = "submodules" /\ log[2].ok
    /\ log[3].op = "synced"

-----------------------------------------------------------------------------
(* _clone_or_update_repo invoked again on the tree it left, remote unchanged *)

SyncAgain ==
    /\ pc = "manage_cache"
    /\ Len(syncs) < MaxSyncs
    /\ pc' = "sync"
    /\ UNCHANGED <<dirs, files, prior, exitCode, error, log, provider, resp, runId, listResp,
                   artifacts, k, dlStatus, todo, clone, update, head, subHead, calls, syncs, clock, dates>>

NextSync ==
    \/ Construct
    \/ Classify
    \/ Clone
    \/ Update
    \/ Submodules
    \/ SyncAgain

SpecSync == Init /\ [][NextSync]_vars

\* C15: against an unchanged remote, every further invocation of sync leaves
\* the repository (tree, checked-out commit, submodule commits) as the first
\* one left it, whether the first one cloned or updated.
C15_SyncIdempotent ==
    \A i \in DOMAIN syncs : syncs[i] = syncs[1]

\* an existing checkout was updated by the first invocation, then synced again
C15_Witness ==
    /\ Len(syncs) = MaxSyncs
    /\ prior.repo = "git"
    /\ syncs[1].head = RemoteHead
    /\ Cardinality({i \in Positions("pull") : log[i].ok}) = MaxSyncs

-----------------------------------------------------------------------------
(* The candidate dates of _get_latest_run_for_workflow *)

InitDates ==
    /\ pc = "dates"
    /\ prior = Nothing
    /\ dirs = {}
    /\ files = {}
    /\ exitCode = -1
    /\ error = ""
    /\ log = <<>>
    /\ provider = [d \in Days |-> "emptyObject"]
    /\ resp = [d \in Days |-> 0]
    /\ runId = 0
    /\ listResp = NoListResp
    /\ artifacts = <<>>
    /\ k = 0
    /\ dlStatus = <<>>
    /\ todo = {}
    /\ clone = FALSE
    /\ update = FALSE
    /\ head = NoHead
    /\ subHead = NoHead
    /\ calls = <<>>
    /\ syncs = <<>>
    /\ clock \in [utc : (2 * HoursPerDay)..((2 + ClockDays) * HoursPerDay - 1),
                  offset : (0 - MaxUtcOffset)..MaxUtcOffset]
    /\ dates = <<>>

\* the list is built; the clock may have moved on between the two reads
BuildDates ==
    /\ pc = "dates"
    /\ dates = <<>>
    /\ \E elapsed \in {0, 1} :
         dates' = DatesToCheck(clock.utc, clock.utc + elapsed, clock.offset)
    /\ UNCHANGED <<pc, dirs, files, prior, exitCode, error, log, provider, resp, runId,
                   listResp, artifacts, k, dlStatus, todo, clone, update, head, subHead,
                   calls, syncs, clock>>

NextDates == BuildDates

SpecDates == InitDates /\ [][NextDates]_vars

\* C21: the first candidate date is the current UTC calendar date and the
\* second the UTC date one day earlier, whatever the UTC offset of the machine.
C21_CandidateDatesAreUtc ==
    dates # <<>> =>
        dates = <<IsoFormat(clock.utc \div HoursPerDay),
                  IsoFormat(clock.utc \div HoursPerDay - 1)>>

-----------------------------------------------------------------------------
(* _manage_directory on its own: successive calls on one path *)

ReconcilePath == FnaLibsInstallPath

InitReconcile ==
    /\ pc = "reconcile"
    /\ prior \in ReconcilePriorStates
    /\ dirs = PriorDirs(prior)
    /\ files = PriorFiles(prior)
    /\ exitCode = -1
    /\ error = ""
    /\ log = <<>>
    /\ provider = [d \in Days |-> "emptyObject"]
    /\ resp = [d \in Days |-> 0]
    /\ runId = 0
    /\ listResp = NoListResp
    /\ artifacts = <<>>
    /\ k = 0
    /\ dlStatus = <<>>
    /\ todo = {}
    /\ clone = FALSE
    /\ update = FALSE
    /\ head = "none"
    /\ subHead = "none"
    /\ calls = <<>>
    /\ syncs = <<>>
    /\ clock = Epoch
    /\ dates = <<>>

Reconcile ==
    /\ pc = "reconcile"
    /\ Len(calls) < MaxCalls
    /\ \E w \in BOOLEAN, c \in BOOLEAN :
          LET r == ManageDirectory(dirs, files, ReconcilePath, w, c)
          IN /\ dirs' = r.dirs
             /\ files' = r.files
             /\ calls' = Append(calls, [wipe |-> w, create |-> c, ok |-> r.ok,
                                         dirsBefore |-> dirs, filesBefore |-> files,
                                         dirsAfter |-> r.dirs, filesAfter |-> r.files])
    /\ UNCHANGED <<pc, prior, exitCode, error, log, provider, resp, runId, listResp,
                   artifacts, k, dlStatus, todo, clone, update, head, subHead, syncs, clock, dates>>

NextReconcile == Reconcile

SpecReconcile == InitReconcile /\ [][NextReconcile]_vars

-----------------------------------------------------------------------------
(* Properties of _manage_directory *)

IsRegularFile(c) == ReconcilePath \in c.filesBefore

IsEmptyDirectory(d, f, p) == p \in d /\ Subtree(d, p) = {} /\ Subtree(f, p) = {}

\* C7: _manage_directory on a path that is a regular file raises for every
\* combination of the two flags and removes or creates nothing.
C7_FileAlwaysConflicts ==
    pc = "reconcile" =>
        \A i \in DOMAIN calls :
            IsRegularFile(calls[i]) =>
                /\ ~calls[i].ok
                /\ calls[i].dirsAfter = calls[i].dirsBefore
                /\ calls[i].filesAfter = calls[i].filesBefore
                /\ ReconcilePath \in calls[i].filesAfter

\* a regular file was reconciled with both flags set and then with both flags clear
C7_Witness ==
    /\ pc = "reconcile"
    /\ Len(calls) = 2
    /\ IsRegularFile(calls[1]) /\ calls[1].wipe /\ calls[1].create /\ ~calls[1].ok
    /\ IsRegularFile(calls[2]) /\ ~calls[2].wipe /\ ~calls[2].create /\ ~calls[2].ok

WipeThenKeep ==
    /\ pc = "reconcile"
    /\ Len(calls) >= 2
    /\ calls[1].wipe /\ calls[1].create
    /\ ~calls[2].wipe /\ calls[2].create

\* C8: wipe-and-create followed by create-only leaves the path an empty
\* directory unless it was a regular file, in which case both calls raise.
C8_WipeThenCreateLeavesEmpty ==
    WipeThenKeep =>
        IF IsRegularFile(calls[1])
        THEN ~calls[1].ok /\ ~calls[2].ok
        ELSE /\ calls[1].ok /\ calls[2].ok
             /\ IsEmptyDirectory(calls[2].dirsAfter, calls[2].filesAfter, ReconcilePath)

\* a directory with content went through the two calls
C8_Witness ==
    /\ WipeThenKeep
    /\ Len(calls) = 2
    /\ prior.libs = "stale"
    /\ Subtree(calls[1].dirsBefore, ReconcilePath) # {}
    /\ IsEmptyDirectory(dirs, files, ReconcilePath)

SameArguments(c1, c2) == c1.wipe = c2.wipe /\ c1.create = c2.create

\* C9: a second _manage_directory call with the same flags, on a path that
\* was not a regular file, leaves the filesystem as the first call left it.
C9_ReconcileIdempotent ==
    pc = "reconcile" =>
        \A i \in DOMAIN calls : \A j \in DOMAIN calls :
            (j = i + 1 /\ SameArguments(calls[i], calls[j]) /\ ~IsRegularFile(calls[i])) =>
                /\ calls[j].ok
                /\ calls[j].dirsAfter = calls[i].dirsAfter
                /\ calls[j].filesAfter = calls[i].filesAfter

\* a directory with content was wiped and created twice in a row
C9_Witness ==
    /\ pc = "reconcile"
    /\ Len(calls) = 2
    /\ SameArguments(calls[1], calls[2])
    /\ calls[1].wipe /\ calls[1].create
    /\ Subtree(calls[1].filesBefore, ReconcilePath) # {}
    /\ calls[1].dirsAfter # calls[1].dirsBefore
    /\ calls[2].dirsAfter = calls[1].dirsAfter

-----------------------------------------------------------------------------
(* Run resolution, merge and the state of the two roots *)

NoRunBodies == {"emptyList", "noKey", "emptyObject"}

\* C16: a 200 answer whose workflow_runs array is empty or missing means no
\* run for that day: after today's the prior day is queried, after the prior
\* day's the process ends as RunNotFound, and nothing else happens.
C16_MissingArrayIsNoRun ==
    \A d \in Days :
        (resp[d] = 200 /\ provider[d] \in NoRunBodies) =>
            IF d < NumDays
            THEN (pc = "query" /\ exitCode = -1) \/ resp[d + 1] # 0
            ELSE pc = "failed" /\ error = "RunNotFound" /\ exitCode = 1

\* C17 as stated: once an artifact is merged, every directory of its tree,
\* at any depth, is an immediate child of the install root under its base name.
C17_EveryDirectoryFlattened ==
    \A a \in DOMAIN listResp.listing :
        PositionsOf("merged", a) # {} =>
            \A q \in ArchiveDirs(listResp.listing[a]) :
                FnaLibsInstallPath \o <<Basename(q)>> \in dirs

\* the names of the top-level directories of all listed artifacts
ListedTopLevelNames ==
    UNION {TopLevelDirs(listResp.listing[i]) : i \in DOMAIN listResp.listing}

\* C17 amended: once an artifact is merged, its top-level directories are
\* immediate children of the install root under their base names, and a
\* nested directory lies inside its moved ancestor at the same relative
\* path and is not an immediate child of the install root.
C17_TopLevelDirectoriesMoved ==
    \A a \in DOMAIN listResp.listing :
        PositionsOf("merged", a) # {} =>
            \A q \in ArchiveDirs(listResp.listing[a]) :
                /\ FnaLibsInstallPath \o q \in dirs
                /\ ExtractPath(listResp.listing[a]) \o q \notin dirs
                /\ (Len(q) > 1 /\ Basename(q) \notin ListedTopLevelNames) =>
                       FnaLibsInstallPath \o <<Basename(q)>> \notin dirs

\* an artifact with a nested directory was merged
C17_Witness ==
    /\ Len(listResp.listing) >= 1
    /\ listResp.listing[1] = "linux-x64"
    /\ PositionsOf("merged", 1) # {}
    /\ FnaLibsInstallPath \o <<"lib64", "vulkan">> \in dirs
    /\ FnaLibsInstallPath \o <<"lib64", "vulkan", "icd.json">> \in files

InstallStages == {"query", "list", "download", "extract", "walk", "move", "cleanup"}

\* what this invocation may have put under the cache root so far
CacheWritten ==
    UNION {{<<listResp.listing[i] \o ".zip">>, <<listResp.listing[i]>>}
           \cup {<<listResp.listing[i]>> \o q :
                    q \in ArchiveDirs(listResp.listing[i]) \cup ArchiveFiles(listResp.listing[i])}
           : i \in 1..k}

\* C18: when the first run-listing query is issued both roots are empty
\* directories, and while artifacts are installed neither holds anything
\* that this invocation did not put there.
C18_RootsStartEmpty ==
    /\ (pc = "query" /\ resp[1] = 0) =>
           /\ IsEmptyDirectory(dirs, files, FnaLibsInstallCachePath)
           /\ IsEmptyDirectory(dirs, files, FnaLibsInstallPath)
    /\ pc \in InstallStages =>
           /\ FnaLibsInstallCachePath \in dirs /\ FnaLibsInstallPath \in dirs
           /\ Subtree(dirs \cup files, FnaLibsInstallPath)
                  \subseteq MergedDirs(k) \cup MergedFiles(k)
           /\ Subtree(dirs \cup files, FnaLibsInstallCachePath) \subseteq CacheWritten

\* the first query is about to be issued after a run that left content in both roots
C18_Witness ==
    /\ pc = "query"
    /\ resp[1] = 0
    /\ prior.libs = "stale"
    /\ prior.cache = "stale"
    /\ IsEmptyDirectory(dirs, files, FnaLibsInstallPath)

-----------------------------------------------------------------------------
(* Where the personal access token goes *)

\* self._personal_access_token
PersonalAccessToken == "personal-access-token"

\* a text is a sequence of fragments; an interpolated value is one fragment
Mentions(text, value) == \E i \in DOMAIN text : text[i] = value

\* _get_request_headers
GetRequestHeaders ==
    [name \in {"Accept", "Authorization", "X-GitHub-Api-Version"} |->
        CASE name = "Accept" -> <<"application/vnd.github.v3+json">>
          [] name = "Authorization" -> <<"Bearer ", PersonalAccessToken>>
          [] OTHER -> <<"2022-11-28">>]

\* the headers _download_artifact builds for its request
DownloadHeaders == [name \in {"Authorization"} |-> <<"Bearer ", PersonalAccessToken>>]

\* the headers of the request an operation sends; a local operation sends none
HeadersSent(e) ==
    CASE e.op \in {"query", "list"} -> GetRequestHeaders
      [] e.op = "download" -> DownloadHeaders
      [] OTHER -> EmptyObject

\* what _download_artifact writes: the body of the response, under the zip path
FileWritten(e) ==
    IF e.op = "download" /\ e.ok
    THEN {[path |-> ZipPath(artifacts[e.arg][1]),
           content |-> <<"archive of ", artifacts[e.arg][1]>>]}
    ELSE {}

\* the lines _clone_or_update_repo prints around an operation
SyncOutput(e) ==
    CASE e.op = "clone" ->
           {<<"Cloning ", "FNA", "...">>}
           \cup (IF e.ok THEN {} ELSE {<<"  Repo already exists, attempting to update...">>})
      [] e.op = "pull" -> {<<"  Updating ", "FNA", "...">>}
      [] e.op = "submodules" -> {<<"  Updating submodules...">>}
      [] e.op = "synced" -> {<<"  Done!">>}
      [] OTHER -> {}

\* a mutation: the failure message of the run query shows the request headers
ResolveOutputWithHeaders(e) ==
    IF e.op # "query" THEN {}
    ELSE LET r == ResolveDay(resp[e.arg], RunBody(provider[e.arg], e.arg), e.arg)
         IN {<<"Determining latest fnalibs workflow run...">>}
            \cup (CASE r.kind = "exit" ->
                         {<<"  Failed to get latest workflow run, response code: ",
                            ToString(resp[e.arg]), ", headers: ">>
                          \o GetRequestHeaders["Authorization"]}
                    [] r.kind = "return" -> {<<"  Run ID: ", ToString(r.id)>>}
                    [] OTHER -> {})

\* the lines printed around one run-listing query
ResolveOutput(e) ==
    IF e.op # "query" THEN {}
    ELSE LET r == ResolveDay(resp[e.arg], RunBody(provider[e.arg], e.arg), e.arg)
         IN {<<"Determining latest fnalibs workflow run...">>}
            \cup (CASE r.kind = "exit" ->
                         {<<"  Failed to get latest workflow run, response code: ",
                            ToString(resp[e.arg])>>}
                    [] r.kind = "return" -> {<<"  Run ID: ", ToString(r.id)>>}
                    [] OTHER -> {})

\* the names and download references of the pairs, in order
RECURSIVE Flatten(_)
Flatten(pairs) == IF pairs = <<>> THEN <<>> ELSE Head(pairs) \o Flatten(Tail(pairs))

\* the lines printed around the artifact-listing query
ListOutput(e) ==
    IF e.op # "list" THEN {}
    ELSE LET r == ParseArtifacts(listResp.status, ListBody(listResp.kind, listResp.listing))
         IN {<<"Getting artifacts for workflow run...">>}
            \cup (CASE r.kind = "exit" ->
                         {<<"  Failed to get artifacts for workflow run, response code: ",
                            ToString(listResp.status)>>}
                    [] r.kind = "return" ->
                         {<<"  Artifacts: ">> \o Flatten(r.artifacts),
                          <<"Downloading and extracting artifacts...">>}
                    [] OTHER -> {})

\* the lines _download_and_extract_artifact prints around an operation
InstallOutput(e) ==
    IF e.op \notin {"download", "extract", "move", "merged"} THEN {}
    ELSE LET name == artifacts[e.arg][1]
         IN CASE e.op = "download" ->
                   {<<"  Downloading and extracting artifact ", ToString(e.arg), "/",
                      ToString(Len(artifacts)), " ", name, "...">>,
                    <<"    Downloading artifact...">>,
                    IF e.ok THEN <<"      Artifact ", name, " downloaded successfully!">>
                            ELSE <<"      Failed to download artifact ", name>>}
              [] e.op = "extract" ->
                   {<<"    Extracting artifact...">>,
                    IF e.ok THEN <<"      Artifact ", name, " extracted successfully!">>
                            ELSE <<"      Failed to extract artifact ", name>>}
              [] e.op = "move" -> {<<"    Moving artifact subdirectories...">>}
              [] OTHER ->
                   {<<"      Artifact ", name, " subdirectories moved successfully!">>,
                    <<"  Artifact ", name, " downloaded and extracted successfully!">>}

\* the message of an exception the updater raises itself, and the last line of execute
FinalOutput ==
    CASE error = "DirectoryConflict" ->
           {<<"Directory ">> \o p \o <<" already exists and is a file?">> :
              p \in {BaseDirectory, FnaRepoInstallPath, FnaLibsInstallCachePath,
                     FnaLibsInstallPath} \cap files}
      [] exitCode = 0 -> {<<"Done!">>}
      [] OTHER -> {}

\* everything printed so far
Stdout ==
    FinalOutput \cup
    UNION {SyncOutput(log[i]) \cup ResolveOutput(log[i]) \cup ListOutput(log[i])
           \cup InstallOutput(log[i]) : i \in DOMAIN log}

\* C19: the token is sent only as the Authorization header of the requests
\* to the provider; no printed line and no written file contains it.
C19_TokenOnlyInAuthorization ==
    /\ \A line \in Stdout : ~Mentions(line, PersonalAccessToken)
    /\ \A i \in DOMAIN log :
          /\ \A w \in FileWritten(log[i]) :
                ~Mentions(w.content, PersonalAccessToken) /\ ~Mentions(w.path, PersonalAccessToken)
          /\ \A h \in DOMAIN HeadersSent(log[i]) :
                Mentions(HeadersSent(log[i])[h], PersonalAccessToken) => h = "Authorization"
          /\ log[i].op \in {"query", "list", "download"} =>
                Mentions(HeadersSent(log[i])["Authorization"], PersonalAccessToken)

\* the token went out with all three kinds of request, a file was written,
\* and progress and failure messages were printed
C19_Witness ==
    /\ \E i \in Positions("download") : FileWritten(log[i]) # {}
    /\ \E i \in Positions("download") : ~log[i].ok
    /\ \E i \in Positions("query") : ~log[i].ok
    /\ \E i \in Positions("query") : log[i].ok
    /\ Positions("list") # {}
    /\ Cardinality(Stdout) > Len(log)

-----------------------------------------------------------------------------
(* What an aborted run leaves, and what is never removed *)

\* the paths of S at or below p
Under(S, p) == {q \in S : IsPrefix(p, q)}

InstallAborted ==
    /\ pc = "failed"
    /\ error \in {"RunNotFound", "ListingFailure", "KeyError", "DownloadFailure",
                  "ExtractionFailure", "MoveError"}

\* C22: the cache root is removed on the success path only; a run that
\* aborts after the cache root was created leaves it, the archives
\* downloaded and extracted so far and the directories merged so far on disk.
C22_NoCleanupOnAbort ==
    /\ Positions("rmcache") # {} => exitCode = 0
    /\ (Positions("query") # {} /\ FnaLibsInstallCachePath \notin dirs) => pc = "done"
    /\ InstallAborted =>
          /\ FnaLibsInstallCachePath \in dirs
          /\ FnaLibsInstallPath \in dirs
          /\ \A i \in Positions("download") :
                log[i].ok => ZipPath(artifacts[log[i].arg][1]) \in files
          /\ \A i \in Positions("extract") :
                log[i].ok =>
                   \A q \in ArchiveDirs(artifacts[log[i].arg][1]) :
                      \/ ExtractPath(artifacts[log[i].arg][1]) \o q \in dirs
                      \/ FnaLibsInstallPath \o q \in dirs
          /\ \A a \in DOMAIN artifacts :
                PositionsOf("merged", a) # {} =>
                   \A q \in ArchiveDirs(artifacts[a][1]) : FnaLibsInstallPath \o q \in dirs

\* the second download failed after the first artifact was merged
C22_Witness ==
    /\ InstallAborted
    /\ error = "DownloadFailure"
    /\ k = 2
    /\ PositionsOf("merged", 1) # {}
    /\ ZipPath(artifacts[1][1]) \in files
    /\ Subtree(dirs, FnaLibsInstallPath) # {}

\* the paths a step removes
Removed == (dirs \cup files) \ (dirs' \cup files')

SyncAborted ==
    /\ pc = "failed"
    /\ \/ error = "SyncFailure"
       \/ error = "DirectoryConflict" /\ BaseDirectory \in dirs /\ FnaRepoInstallPath \in files

\* C24: when the sync aborts the run, the install root and the cache root
\* are as they were before the invocation and no provider query was issued.
C24_SyncAbortLeavesRoots ==
    SyncAborted =>
        /\ \A p \in {FnaLibsInstallPath, FnaLibsInstallCachePath} :
              /\ Under(dirs, p) = Under(PriorDirs(prior), p)
              /\ Under(files, p) = Under(PriorFiles(prior), p)
        /\ \A d \in Days : resp[d] = 0
        /\ Positions("query") \cup Positions("list") \cup Positions("download") = {}

\* the clone failed, the fallback update failed, a previous install is on disk
C24_Witness ==
    /\ SyncAborted
    /\ error = "SyncFailure"
    /\ \E i \in Positions("clone") : ~log[i].ok
    /\ \E i \in Positions("pull") : ~log[i].ok
    /\ prior.libs = "stale" /\ prior.cache = "stale"
    /\ StaleLibsFiles \subseteq files
    /\ StaleCacheFiles \subseteq files

\* the regular files at the top of the archive of an artifact
TopLevelFiles(archive) == {q \in ArchiveFiles(archive) : Len(q) = 1}

\* C25: a regular file at the top of an extracted tree is never put in the
\* install root and is nowhere on disk after a successful run; the install
\* root holds files only inside the moved directories, which keep their subtree.
C25_DirectoriesOnlyMoved ==
    /\ \A i \in DOMAIN listResp.listing :
          \A q \in TopLevelFiles(listResp.listing[i]) :
             /\ FnaLibsInstallPath \o q \notin files
             /\ pc = "done" => \A f \in files : Basename(f) # Basename(q)
    /\ pc \in InstallStages \cup {"done"} => Children(files, FnaLibsInstallPath) = {}
    /\ \A a \in DOMAIN listResp.listing :
          PositionsOf("merged", a) # {} =>
             /\ \A q \in ArchiveDirs(listResp.listing[a]) : FnaLibsInstallPath \o q \in dirs
             /\ \A q \in ArchiveFiles(listResp.listing[a]) \ TopLevelFiles(listResp.listing[a]) :
                   FnaLibsInstallPath \o q \in files

\* an archive with a file at its top was installed by a run that succeeded
C25_Witness ==
    /\ pc = "done"
    /\ \E i \in DOMAIN listResp.listing : listResp.listing[i] = "win-x64"
    /\ FnaLibsInstallPath \o <<"lib", "FNA3D.dll">> \in files
    /\ \A f \in files : Basename(f) # "README.txt"

====
